---- MODULE Spec2Model ----
(***************************************************************************)
(* Model of src/stores/eth/contracts.js: the contract-handle cache         *)
(* (observableContract / resetContractCache), the call interceptor         *)
(* (handler.get / overrideWrapped), function and balance tracking, and the *)
(* block-driven debounced refresh scheduler (updateOnBlock and the two     *)
(* subscribers).                                                           *)
(***************************************************************************)
EXTENDS Integers, Sequences, FiniteSets, Bags, TLC

\* ------------------------------------------------------------------ bounds
MaxHandles == 3      \* handles (Proxy instances) constructed in one run
MaxTimers == 2       \* setTimeout calls in one run
MaxTasks == 2        \* async continuations suspended at the same time
MaxTracked == 2      \* entries of the tracked-functions table
MaxBlock == 5        \* largest block number an event carries
MaxArgs == 3         \* longest argument list passed through a handle
MaxTrackables == 1   \* trackables the application holds on to at a time

\* --------------------------------------------------------------- constants
Threshold == 4       \* blockNumber > blockNumberPid[0] + 4

\* ------------------------------------------------------------- addresses
\* Addresses are strings, modelled as sequences of characters.
A1 == <<"x", "A">>          \* a valid address written with an upper-case digit
A2 == <<"x", "b">>          \* a valid address
A3 == <<"x", "c">>          \* a valid address (used as an account)
BadAddr == <<"x">>          \* fails address validation
AddrLen == Len(A1)
HexChars == {"a", "A", "b", "c"}
Dot == "."

isAddressLoose(s) ==
    /\ Len(s) > 0
    /\ s[1] = "x"

\* @pie-dao/utils isAddress: a format test on the string.
isAddress(s) ==
    /\ Len(s) = AddrLen
    /\ s[1] = "x"
    /\ \A i \in 2..Len(s) : s[i] \in HexChars

\* String.prototype.toLowerCase
LowerChar(c) == IF c = "A" THEN "a" ELSE c
toLowerCase(s) == [i \in DOMAIN s |-> LowerChar(s[i])]

\* ------------------------------------------------------------ JS values
\* A value is undefined, a primitive or a plain object.  A plain object is a
\* total map over Fields; 0 stands for "key not present".
Fields == {"gasLimit", "value"}
EmptyMap == [f \in Fields |-> 0]
Undefined == [t |-> "undef", v |-> 0, o |-> EmptyMap]
Prim(n) == [t |-> "prim", v |-> n, o |-> EmptyMap]
Obj(m) == [t |-> "obj", v |-> 0, o |-> m]

\* @pie-dao/utils isPOJO
isPOJO(x) == x.t = "obj"

\* { ...a, ...b } on values: spreading undefined or a primitive adds no key.
SpreadOf(x) == IF x.t = "obj" THEN x.o ELSE EmptyMap
Spread2(a, b) ==
    Obj([f \in Fields |-> IF SpreadOf(b)[f] # 0 THEN SpreadOf(b)[f]
                          ELSE SpreadOf(a)[f]])

\* --------------------------------------------------------------- ABIs
\* An ABI is a sequence of fragments (name, number of inputs).
erc20 == << [name |-> "balanceOf", inputs |-> 1],
            [name |-> "transfer", inputs |-> 2] >>
poolAbi == << [name |-> "balanceOf", inputs |-> 1],
              [name |-> "transfer", inputs |-> 2],
              [name |-> "joinPool", inputs |-> 1],
              [name |-> "totalSupply", inputs |-> 0] >>
Abis == {erc20, poolAbi}
FunctionNames(abi) == {abi[i].name : i \in DOMAIN abi}
AllFunctionNames == FunctionNames(poolAbi)

\* ------------------------------------------------- override registry
\* config/contractOverrides.json: lower-case address -> function -> params.
contractOverrides ==
    { [addr |-> <<"x", "a">>, fn |-> "transfer",
       rule |-> [gasLimit |-> 1, value |-> 2]],
      [addr |-> <<"x", "a">>, fn |-> "joinPool",
       rule |-> [gasLimit |-> 2, value |-> 0]] }

getOverrides(functionName, contract) ==
    LET addy == toLowerCase(contract.address)
        hit == {r \in contractOverrides : r.addr = addy /\ r.fn = functionName}
    IN IF \E r \in contractOverrides : r.addr = addy
       THEN (IF hit = {} THEN Undefined ELSE Obj((CHOOSE r \in hit : TRUE).rule))
       ELSE Undefined

hasOverrides(functionName, contract) ==
    getOverrides(functionName, contract).t # "undef"

\* ------------------------------------------------------ call interceptor
\* A contract binding (ethers.Contract): its address, its ABI and what it is
\* connected to (signer id, or 0 for the read-only provider).
Binding(address, abi, signer) ==
    [address |-> address, abi |-> abi, signer |-> signer]

\* contract.interface.fragments.find(({ name }) => name === functionName)
FindFragment(functionName, abi) ==
    LET hits == {i \in DOMAIN abi : abi[i].name = functionName}
    IN IF hits = {} THEN 0 ELSE CHOOSE i \in hits : \A j \in hits : i <= j

\* expectedArgLength: the declared input count, or -1 when it throws
\* ("function not found in contract abi").
expectedArgLength(functionName, contract) ==
    LET i == FindFragment(functionName, contract.abi)
    IN IF i = 0 THEN -1 ELSE contract.abi[i].inputs

\* args[position] on a JS array: undefined past the end.
ArgAt(args, position) ==
    IF position + 1 <= Len(args) THEN args[position + 1] ELSE Undefined

\* args[position] = v on a JS array: the array grows, the gap is undefined.
SetArgAt(args, position, v) ==
    [i \in 1..(IF position + 1 > Len(args) THEN position + 1 ELSE Len(args)) |->
        IF i = position + 1 THEN v
        ELSE IF i <= Len(args) THEN args[i] ELSE Undefined]

\* The outcome of a call made through a handle: the exception it throws
\* ("none" when it returns) and the calls that reached the binding.
Threw(e) == [err |-> e, calls |-> << >>]
Invoked(prop, args) == [err |-> "none", calls |-> << [fn |-> prop, args |-> args] >>]

ArityGuardInclusive(position, nargs) == position <= nargs

\* The guard of overrideWrapped's throw statement.
ArityGuard(position, nargs) == position < nargs

\* overrideWrapped(prop, contract)(...passedArgs).  The throw statement's
\* message reads the identifier `address`, which is not in scope, so the
\* exception raised there is a ReferenceError.
overrideWrapped(prop, contract, passedArgs) ==
    LET position == expectedArgLength(prop, contract)
    IN IF position < 0 THEN Threw("Error")
       ELSE IF ArityGuard(position, Len(passedArgs)) THEN Threw("ReferenceError")
       ELSE IF isPOJO(ArgAt(passedArgs, position))
       THEN Invoked(prop, SetArgAt(passedArgs, position,
                Spread2(getOverrides(prop, contract), ArgAt(passedArgs, position))))
       ELSE Invoked(prop, SetArgAt(passedArgs, position,
                Spread2(getOverrides(prop, contract), Undefined)))

Addons == {"raw", "trackBalance", "functions"}

\* handler.get(obj, prop) followed by a call of what it returned.
HandleCall(contract, prop, passedArgs) ==
    IF prop \in Addons THEN Threw("NotACall")
    ELSE IF prop \in FunctionNames(contract.abi) /\ hasOverrides(prop, contract)
    THEN overrideWrapped(prop, contract, passedArgs)
    ELSE IF prop \in FunctionNames(contract.abi)
    THEN Invoked(prop, passedArgs)
    ELSE Threw("TypeError")

\* The wrapper generateTrackableFunction returns, called with args (lines
\* 89-91): contracts[contractAddress].raw throws a TypeError when the cache
\* has no entry for the address; otherwise rawFunction is invoked with the
\* caller's arguments.  cached = the cache has an entry for the address.
WrapperCall(cached, functionName, args) ==
    IF cached THEN Invoked(functionName, args) ELSE Threw("TypeError")

\* ------------------------------------------------------------------ keys
\* ./keys balanceKey: "<token>.<account>".
balanceKey(token, account) == token \o <<Dot>> \o account

\* String.prototype.split("."): the pieces between the dots.
RECURSIVE SplitFrom(_, _, _)
SplitFrom(s, i, cur) ==
    IF i > Len(s) THEN <<cur>>
    ELSE IF s[i] = Dot THEN <<cur>> \o SplitFrom(s, i + 1, << >>)
    ELSE SplitFrom(s, i + 1, Append(cur, s[i]))
Split(s) == SplitFrom(s, 1, << >>)

\* const [token, account] = key.split(".") : a missing piece is undefined,
\* which isAddress rejects; the empty string stands for it here.
Piece(parts, i) == IF i <= Len(parts) THEN parts[i] ELSE << >>

\* ./keys functionKey: one key per (address, function, args, overrides).
functionKey(contractAddress, functionName, args, overrides) ==
    <<"fn", contractAddress, functionName, args, overrides>>

\* ------------------------------------------------------------------ state
VARIABLES
    contracts,         \* let contracts = {} : address -> handle id, 0 = no entry
    handles,           \* every Proxy constructed so far; the index is its identity
    eth,               \* get(eth).signer : 0 = none (read-only provider)
    trackedBalances,   \* const trackedBalances = new Set(), in insertion order
    trackedFunctions,  \* const trackedFunctions = {} : key -> entry
    trackables,        \* the objects handle.functions.f(...args) has returned
    blockNumberPid,    \* let blockNumberPid = [0] : <<target, timer id>>, 0 = undefined
    timers,            \* timer ids the event loop still holds
    nextTimer,         \* the id the next setTimeout returns
    tasks,             \* bag of async continuations suspended at an await
    subjects,          \* subject directory: key -> stream (identity, last value)
    fired,             \* the timer ids whose callback (updateOnBlock) has run
    armInfo,           \* which event armed the timer in the slot, and from which state
    handedOut,         \* per address, the cached handles returned since the last reset
    lastOp,            \* the operation that made the last step, and its outcome
    probe              \* the last call made through a handle and its outcome

vars == <<contracts, handles, eth, trackedBalances, trackedFunctions, trackables,
          blockNumberPid, timers, nextTimer, tasks, subjects, fired,
          armInfo, handedOut, lastOp, probe>>

cacheVars == <<contracts, handles, handedOut>>
trackVars == <<trackedBalances, trackedFunctions, trackables>>
schedVars == <<blockNumberPid, timers, nextTimer, fired, armInfo>>

CacheAddrs == {A1, A2}
Accounts == {A3}
ChainValues == {1}
\* The record kept of the last operation: which one, whether it threw, and
\* for observableContract the parameters it was called with.
OpOn(name, threw, arg) == [op |-> name, threw |-> threw, arg |-> arg]
Op(name, threw) == OpOn(name, threw, << >>)
NoProbe == [contract |-> Binding(A1, erc20, 0), prop |-> "raw", args |-> << >>,
            via |-> "get", res |-> Threw("NotACall")]

Init ==
    /\ contracts = [a \in CacheAddrs |-> 0]
    /\ handles = << >>
    /\ eth = 0
    /\ trackedBalances = << >>
    /\ trackedFunctions = << >>
    /\ trackables = {}
    /\ blockNumberPid = <<0, 0>>
    /\ timers = {}
    /\ nextTimer = 1
    /\ tasks = EmptyBag
    /\ subjects = << >>
    /\ fired = {}
    /\ armInfo = [by |-> "none", idle |-> TRUE]
    /\ handedOut = [a \in CacheAddrs |-> {}]
    /\ lastOp = Op("init", FALSE)
    /\ probe = NoProbe

\* -------------------------------------------------------------- helpers
Put(f, k, v) == [x \in (DOMAIN f) \cup {k} |-> IF x = k THEN v ELSE f[x]]
AddTask(b, t) == b (+) SetToBag({t})
RemoveTask(b, t) == b (-) SetToBag({t})
Str(n) == [t |-> "str", v |-> n, o |-> EmptyMap]
NoValue == [t |-> "none", v |-> 0, o |-> EmptyMap]

\* A JS Set keeps its elements in insertion order: Set.prototype.add appends
\* an element that is not there yet; SetKeys is the set of its elements.
SetKeys(q) == {q[i] : i \in DOMAIN q}
SetAdd(q, key) == IF key \in SetKeys(q) THEN q ELSE Append(q, key)

\* subject(key): the directory after the access; the stream of a key is
\* created on first access and is the one stream of that key from then on.
\* A stream is identified by its key and holds the last value published.
subject(dir, key) ==
    IF key \in DOMAIN dir THEN dir ELSE Put(dir, key, [last |-> NoValue])
\* subject(key).next(value)
Publish(dir, key, value) == Put(subject(dir, key), key, [last |-> value])

\* The handle a construction at lines 168-205 makes.  user = the application
\* holds a reference to it.
NewHandle(address, abi, explicit, user) ==
    [address |-> address, abi |-> abi, explicit |-> explicit, signer |-> eth,
     user |-> user]
BindingOf(h) == Binding(handles[h].address, handles[h].abi, handles[h].signer)

\* A continuation suspended at `await observableContract(...)` whose promise
\* is already resolved (lines 25, 36 and 80): it resumes in a later
\* microtask and then sends the contract call `next`.
Await(origin, next) ==
    [k |-> "await", origin |-> origin, key |-> next.key, next |-> next]

CacheStoreAlways(cache, address, explicit, h) == [cache EXCEPT ![address] = h]

\* if (!abi) { contracts[address] = proxy }
CacheStore(cache, address, explicit, h) ==
    IF explicit THEN cache ELSE [cache EXCEPT ![address] = h]

CacheHitNever(cache, address, explicit) == FALSE

\* if (contracts[address] && !abi) return contracts[address]
CacheHit(cache, address, explicit) == cache[address] # 0 /\ ~explicit

\* --------------------------------------------------------- handle cache
\* observableContract({ abi, address }) up to its first suspension, called
\* by the application.  explicit = an abi was supplied.  The handle a cache
\* hit returns is from then on held by the application.
GetHandle(address, explicit, abi) ==
    /\ UNCHANGED <<eth, trackVars, schedVars, subjects, probe>>
    /\ IF ~isAddress(address)
       THEN \* validateIsAddress throws
            /\ lastOp' = OpOn("getHandle", TRUE, <<address, explicit>>)
            /\ UNCHANGED <<cacheVars, tasks>>
       ELSE IF CacheHit(contracts, address, explicit)
       THEN /\ lastOp' = OpOn("getHandle", FALSE, <<address, explicit>>)
            /\ handedOut' = [handedOut EXCEPT ![address] = @ \cup {contracts[address]}]
            /\ handles' = [handles EXCEPT ![contracts[address]].user = TRUE]
            /\ UNCHANGED <<contracts, tasks>>
       ELSE IF explicit
       THEN \* contractAbi = abi: no suspension, the handle is built at once
            /\ Len(handles) < MaxHandles
            /\ handles' = Append(handles, NewHandle(address, abi, TRUE, TRUE))
            /\ contracts' = CacheStore(contracts, address, TRUE, Len(handles) + 1)
            /\ lastOp' = OpOn("getHandle", FALSE, <<address, explicit>>)
            /\ UNCHANGED <<handedOut, tasks>>
       ELSE \* await findAbi(address)
            /\ BagCardinality(tasks) < MaxTasks
            /\ tasks' = AddTask(tasks, [k |-> "findAbi", address |-> address,
                                        origin |-> "user", key |-> << >>])
            /\ lastOp' = OpOn("getHandle", FALSE, <<address, explicit>>)
            /\ UNCHANGED cacheVars

\* findAbi settles (found: the looked-up ABI; not found: the erc20 fallback)
\* and observableContract runs to its end: lines 161-211.  The callback of
\* updateOnBlock that awaits it (line 36) resumes in a later microtask.
FindAbiDone(t, found) ==
    /\ t \in BagToSet(tasks)
    /\ t.k = "findAbi"
    /\ Len(handles) < MaxHandles
    /\ LET h == Len(handles) + 1
           abi == IF found THEN poolAbi ELSE erc20
       IN /\ handles' = Append(handles,
                               NewHandle(t.address, abi, FALSE, t.origin = "user"))
          /\ contracts' = CacheStore(contracts, t.address, FALSE, h)
          /\ handedOut' = [handedOut EXCEPT ![t.address] = @ \cup {h}]
          /\ IF t.origin = "user"
             THEN /\ tasks' = RemoveTask(tasks, t)
                  /\ lastOp' = OpOn("getHandleReturn", FALSE, <<t.address, FALSE>>)
             ELSE /\ tasks' = AddTask(RemoveTask(tasks, t),
                        Await("refresh",
                              [k |-> "call", key |-> t.key, contract |-> h,
                               raw |-> t.entry.rawFunction,
                               args |-> Append(t.entry.args, t.entry.overrides)]))
                  /\ lastOp' = Op("refreshResolve", FALSE)
    /\ UNCHANGED <<eth, trackVars, schedVars, subjects, probe>>

ResetAll ==
    /\ contracts' = [a \in CacheAddrs |-> 0]
    /\ handedOut' = [a \in CacheAddrs |-> {}]
    /\ trackedBalances' = << >>
    /\ trackedFunctions' = << >>
    /\ lastOp' = Op("resetCache", FALSE)
    /\ UNCHANGED <<handles, eth, trackables, schedVars, tasks, subjects, probe>>

\* resetContractCache: contracts = {}
ResetCache ==
    /\ contracts' = [a \in CacheAddrs |-> 0]
    /\ handedOut' = [a \in CacheAddrs |-> {}]
    /\ lastOp' = Op("resetCache", FALSE)
    /\ UNCHANGED <<handles, eth, trackVars, schedVars, tasks, subjects, probe>>

\* The eth store is written by the wallet code: a signer appears or
\* disappears.  observableContract reads it at line 168.
Signers == {0, 1}
SignerChange(signer) ==
    /\ signer # eth
    /\ eth' = signer
    /\ lastOp' = Op("signerChange", FALSE)
    /\ UNCHANGED <<cacheVars, trackVars, schedVars, tasks, subjects, probe>>

\* -------------------------------------------------------------- tracking
TrackFns == {"transfer"}
TrackArgs == { <<Prim(1), Prim(2)>> }
CallerOverrides == { Obj(EmptyMap), Obj([gasLimit |-> 2, value |-> 0]) }

validateIsAddressNoop(address) == TRUE

\* validateIsAddress(account), line 77: returns when the account is an
\* address and throws otherwise.
validateIsAddress(address) == isAddress(address)

\* handle.trackBalance(account), lines 76-80, up to the suspension at
\* `await observableContract(...)`: the key is added and the explicit-ABI
\* handle is built before the closure suspends.
TrackBalance(h, account) ==
    /\ h \in DOMAIN handles
    /\ handles[h].user
    /\ UNCHANGED <<eth, trackedFunctions, trackables, schedVars, handedOut,
                   subjects, probe>>
    /\ IF ~validateIsAddress(account)
       THEN /\ lastOp' = Op("trackBalance", TRUE)
            /\ UNCHANGED <<contracts, handles, trackedBalances, tasks>>
       ELSE LET address == handles[h].address
                key == balanceKey(address, account)
                n == Len(handles) + 1
            IN /\ Len(handles) < MaxHandles
               /\ BagCardinality(tasks) < MaxTasks
               /\ trackedBalances' = SetAdd(trackedBalances, key)
               /\ handles' = Append(handles, NewHandle(address, erc20, TRUE, FALSE))
               /\ contracts' = CacheStore(contracts, address, TRUE, n)
               /\ tasks' = AddTask(tasks, Await("trackBalance",
                                [k |-> "balanceOf", key |-> key, handle |-> n,
                                 account |-> account]))
               /\ lastOp' = Op("trackBalance", FALSE)

\* A continuation suspended at `await observableContract(...)` resumes and
\* sends its contract call.  trackBalance (lines 81-84) calls balanceOf
\* through the proxy and returns subject(key); updateOnBlock (lines 26 and
\* 38-39) calls the raw binding.
Resume(t) ==
    /\ t \in BagToSet(tasks)
    /\ t.k = "await"
    /\ IF t.origin = "trackBalance"
       THEN LET call == HandleCall(BindingOf(t.next.handle), "balanceOf",
                                   <<Prim(t.next.account)>>)
            IN IF call.err = "none"
               THEN /\ tasks' = AddTask(RemoveTask(tasks, t), t.next)
                    /\ subjects' = subject(subjects, t.key)
               ELSE /\ tasks' = RemoveTask(tasks, t)
                    /\ UNCHANGED subjects
       ELSE /\ tasks' = AddTask(RemoveTask(tasks, t), t.next)
            /\ UNCHANGED subjects
    /\ lastOp' = Op("resume", FALSE)
    /\ UNCHANGED <<cacheVars, eth, trackVars, schedVars, probe>>

\* handle.functions[functionName](...args) on a handle the application
\* holds, lines 89-91 and 115: the wrapper reads the cache, calls rawFunction
\* with the caller's arguments and returns the trackable, which keeps the
\* binding it read. The application keeps the new trackable and lets go of as
\* many older ones as it takes to hold at most MaxTrackables.
CallThroughFunctions(h, functionName, args) ==
    /\ h \in DOMAIN handles
    /\ handles[h].user
    /\ functionName \in FunctionNames(handles[h].abi)
    /\ LET c == contracts[handles[h].address]
       IN /\ probe' = [contract |-> BindingOf(h), prop |-> functionName,
                       args |-> args, via |-> "functions",
                       res |-> WrapperCall(c # 0, functionName, args)]
          /\ IF c = 0
             THEN trackables' = trackables
             ELSE \E keep \in SUBSET trackables :
                     /\ Cardinality(keep) < MaxTrackables
                     /\ trackables' = keep \cup
                            {[h |-> h, functionName |-> functionName,
                              args |-> args, contract |-> c]}
          /\ lastOp' = Op("wrapperCall", c = 0)
    /\ UNCHANGED <<cacheVars, eth, trackedBalances, trackedFunctions, schedVars,
                   tasks, subjects>>

\* const key = functionKey(contractAddress, functionName, args, overrides)
TrackKey(contractAddress, functionName, args, callerOverrides) ==
    functionKey(contractAddress, functionName, args, callerOverrides)

TrackStoreKeepFirst(table, key, entry) ==
    IF key \in DOMAIN table THEN table ELSE Put(table, key, entry)

\* trackedFunctions[key] = { contractAddress, rawFunction, args, overrides }
TrackStore(table, key, entry) == Put(table, key, entry)

\* trackable.track(callerOverrides), lines 93-113, on a trackable the
\* application holds.  contract is the binding the wrapper read when the
\* trackable was made; rawFunction is the function object of the binding
\* the handle was built with.
TrackFunction(tr, callerOverrides) ==
    /\ tr \in trackables
    /\ UNCHANGED <<cacheVars, eth, trackedBalances, trackables, schedVars, probe>>
    /\ LET contractAddress == handles[tr.h].address
           contract == BindingOf(tr.contract)
           key == TrackKey(contractAddress, tr.functionName, tr.args, callerOverrides)
           overrides ==
               IF hasOverrides(tr.functionName, contract)
               THEN Spread2(getOverrides(tr.functionName, contract), callerOverrides)
               ELSE callerOverrides
           entry == [contractAddress |-> contractAddress,
                     rawFunction |-> <<tr.h, tr.functionName>>,
                     args |-> tr.args, overrides |-> overrides]
       IN /\ trackedFunctions' = TrackStore(trackedFunctions, key, entry)
          /\ Cardinality(DOMAIN trackedFunctions') <= MaxTracked
          /\ BagCardinality(tasks) < MaxTasks
          /\ tasks' = AddTask(tasks, [k |-> "call", key |-> key,
                                      contract |-> tr.contract,
                                      raw |-> <<tr.h, tr.functionName>>,
                                      args |-> Append(tr.args, overrides)])
          /\ subjects' = subject(subjects, key)
          /\ lastOp' = Op("track", FALSE)

CallSettledAbortsCycle(t, value) ==
    /\ t \in BagToSet(tasks)
    /\ t.k \in {"balanceOf", "call"}
    /\ tasks' = IF value = 0 THEN EmptyBag ELSE RemoveTask(tasks, t)
    /\ subjects' = IF value = 0 THEN subjects
                   ELSE IF t.k = "balanceOf" THEN Publish(subjects, t.key, Str(value))
                   ELSE Publish(subjects, t.key, Prim(value))
    /\ lastOp' = Op("settled", FALSE)
    /\ UNCHANGED <<cacheVars, eth, trackVars, schedVars, probe>>

\* A suspended contract call settles: with a value (published to the key's
\* stream) or, when value = 0, by rejecting (nothing is published).
CallSettled(t, value) ==
    /\ t \in BagToSet(tasks)
    /\ t.k \in {"balanceOf", "call"}
    /\ tasks' = RemoveTask(tasks, t)
    /\ subjects' = IF value = 0 THEN subjects
                   ELSE IF t.k = "balanceOf" THEN Publish(subjects, t.key, Str(value))
                   ELSE Publish(subjects, t.key, Prim(value))
    /\ lastOp' = Op("settled", FALSE)
    /\ UNCHANGED <<cacheVars, eth, trackVars, schedVars, probe>>

\* ------------------------------------------------------------- scheduler
ArmWithoutClear(blockNumber, by) ==
    /\ nextTimer <= MaxTimers
    /\ timers' = timers \cup {nextTimer}
    /\ blockNumberPid' = <<blockNumber, nextTimer>>
    /\ nextTimer' = nextTimer + 1
    /\ armInfo' = [by |-> by, idle |-> timers = {}]
    /\ UNCHANGED fired

\* clearTimeout(blockNumberPid[1]);
\* blockNumberPid = [blockNumber, setTimeout(updateOnBlock, 500)]
Arm(blockNumber, by) ==
    /\ nextTimer <= MaxTimers
    /\ timers' = (timers \ {blockNumberPid[2]}) \cup {nextTimer}
    /\ blockNumberPid' = <<blockNumber, nextTimer>>
    /\ nextTimer' = nextTimer + 1
    /\ armInfo' = [by |-> by, idle |-> timers = {}]
    /\ UNCHANGED fired

ExceedsThresholdInclusive(blockNumber, lastTarget) ==
    blockNumber >= lastTarget + Threshold

\* if (blockNumber > blockNumberPid[0] + 4)
ExceedsThreshold(blockNumber, lastTarget) == blockNumber > lastTarget + Threshold

BlockAdvanceClearsOnly(blockNumber) ==
    /\ IF ExceedsThreshold(blockNumber, blockNumberPid[1])
       THEN /\ timers' = timers \ {blockNumberPid[2]}
            /\ blockNumberPid' = <<blockNumber, blockNumberPid[2]>>
            /\ UNCHANGED <<nextTimer, fired, armInfo>>
       ELSE UNCHANGED schedVars
    /\ lastOp' = Op("block", FALSE)
    /\ UNCHANGED <<cacheVars, eth, trackVars, tasks, subjects, probe>>

\* subject("blockNumber") subscriber, lines 46-54.
BlockAdvance(blockNumber) ==
    /\ IF ExceedsThreshold(blockNumber, blockNumberPid[1])
       THEN Arm(blockNumber, "block")
       ELSE UNCHANGED schedVars
    /\ lastOp' = Op("block", FALSE)
    /\ UNCHANGED <<cacheVars, eth, trackVars, tasks, subjects, probe>>

BumpGated(blockNumber) ==
    /\ IF ExceedsThreshold(blockNumber, blockNumberPid[1])
       THEN Arm(blockNumber, "bump")
       ELSE UNCHANGED schedVars
    /\ lastOp' = Op("bump", FALSE)
    /\ UNCHANGED <<cacheVars, eth, trackVars, tasks, subjects, probe>>

\* subject("blockNumberBump") subscriber, lines 56-61.
Bump(blockNumber) ==
    /\ Arm(blockNumber, "bump")
    /\ lastOp' = Op("bump", FALSE)
    /\ UNCHANGED <<cacheVars, eth, trackVars, tasks, subjects, probe>>

\* updateOnBlock, lines 22-32: the balance keys that pass the isAddress test.
KeyToken(key) == Piece(Split(key), 1)
KeyAccount(key) == Piece(Split(key), 2)

ValidBalanceKeysNone(tb) == << >>

\* The keys of trackedBalances whose two pieces pass isAddress (line 24), in
\* the order forEach visits them.
ValidBalanceKeys(tb) ==
    SelectSeq(tb, LAMBDA key : isAddress(KeyToken(key)) /\ isAddress(KeyAccount(key)))

RefreshedFunctionKeysNone(tf) == {}

\* updateOnBlock, line 34: Object.keys(trackedFunctions)
RefreshedFunctionKeys(tf) == DOMAIN tf

\* Line 25 for the i-th valid balance key: a fresh explicit-ABI handle, and
\* the callback suspended at the await with the balance read still to send.
BalanceHandles(q) ==
    [i \in DOMAIN q |-> NewHandle(KeyToken(q[i]), erc20, TRUE, FALSE)]
BalanceTasks(q, base) ==
    {Await("refresh", [k |-> "balanceOf", key |-> q[i], handle |-> base + i,
                       account |-> KeyAccount(q[i])]) : i \in DOMAIN q}

RECURSIVE StoreAll(_, _, _, _)
StoreAll(cache, q, base, i) ==
    IF i > Len(q) THEN cache
    ELSE StoreAll(CacheStore(cache, KeyToken(q[i]), TRUE, base + i), q, base, i + 1)

\* Lines 35-36 for one tracked function: with a cached handle the callback
\* suspends at the await with its call still to send, otherwise it waits for
\* the ABI lookup of observableContract.
FunctionTask(cache, tf, key) ==
    IF CacheHit(cache, tf[key].contractAddress, FALSE)
    THEN Await("refresh",
               [k |-> "call", key |-> key, contract |-> cache[tf[key].contractAddress],
                raw |-> tf[key].rawFunction,
                args |-> Append(tf[key].args, tf[key].overrides)])
    ELSE [k |-> "findAbi", address |-> tf[key].contractAddress, origin |-> "refresh",
          key |-> key, entry |-> tf[key]]

TaskKeys(S) == {t.key : t \in S}

\* The debounce timer expires: updateOnBlock runs, up to the first
\* suspension of every callback it starts.
TimerFire(id) ==
    /\ id \in timers
    /\ timers' = timers \ {id}
    /\ fired' = fired \cup {id}
    /\ UNCHANGED <<blockNumberPid, nextTimer, armInfo>>
    /\ LET q == ValidBalanceKeys(trackedBalances)
           base == Len(handles)
           btasks == BalanceTasks(q, base)
           ftasks == {FunctionTask(contracts, trackedFunctions, key) :
                        key \in RefreshedFunctionKeys(trackedFunctions)}
           hits == {t \in ftasks : t.k = "await"}
       IN /\ base + Len(q) <= MaxHandles
          /\ BagCardinality(tasks) + Cardinality(btasks \cup ftasks) <= MaxTasks
          /\ handles' = handles \o BalanceHandles(q)
          /\ contracts' = StoreAll(contracts, q, base, 1)
          /\ handedOut' = [a \in CacheAddrs |->
                handedOut[a] \cup {t.next.contract : t \in {u \in hits :
                                      trackedFunctions[u.key].contractAddress = a}}]
          /\ tasks' = tasks (+) SetToBag(btasks \cup ftasks)
          /\ lastOp' = Op("refresh", FALSE)
    /\ UNCHANGED <<eth, trackVars, subjects, probe>>

\* -------------------------------------------------------- specification
\* The whole program: the application works with one contract address, the
\* block feed delivers a block number below and one beyond the threshold, and
\* refreshes are forced by bumps.
Next ==
    \/ GetHandle(A1, FALSE, erc20)
    \/ \E t \in BagToSet(tasks) : FindAbiDone(t, TRUE)
    \/ ResetCache
    \/ \E h \in DOMAIN handles : TrackBalance(h, A3)
    \/ \E h \in DOMAIN handles :
           CallThroughFunctions(h, "transfer", <<Prim(1), Prim(2)>>)
    \/ \E tr \in trackables : TrackFunction(tr, Obj(EmptyMap))
    \/ \E t \in BagToSet(tasks) : Resume(t)
    \/ \E t \in BagToSet(tasks), v \in ChainValues \cup {0} : CallSettled(t, v)
    \/ \E b \in {Threshold, MaxBlock} : BlockAdvance(b)
    \/ Bump(0)
    \/ \E id \in timers : TimerFire(id)

Spec == Init /\ [][Next]_vars

\* The handle cache alone, over two contract addresses: calls with and
\* without an explicit ABI, ABI lookups that succeed or fail, resets.
NextCache ==
    \/ \E a \in CacheAddrs \cup {BadAddr} : GetHandle(a, FALSE, erc20)
    \/ \E a \in CacheAddrs \cup {BadAddr} : GetHandle(a, TRUE, erc20)
    \/ \E t \in BagToSet(tasks), found \in BOOLEAN : FindAbiDone(t, found)
    \/ ResetCache

SpecCache == Init /\ [][NextCache]_vars

\* Every caller of observableContract with an explicit ABI: the application,
\* trackBalance and the balance re-reads of forced refresh cycles.
NextBalance ==
    \/ \E a \in {A1, BadAddr} : GetHandle(a, FALSE, erc20)
    \/ \E a \in {A1, BadAddr} : GetHandle(a, TRUE, erc20)
    \/ \E t \in BagToSet(tasks), found \in BOOLEAN : FindAbiDone(t, found)
    \/ ResetCache
    \/ \E h \in DOMAIN handles, account \in {A3, BadAddr} : TrackBalance(h, account)
    \/ \E t \in BagToSet(tasks) : Resume(t)
    \/ \E t \in BagToSet(tasks) : CallSettled(t, 1)
    \/ Bump(0)
    \/ \E id \in timers : TimerFire(id)

SpecBalance == Init /\ [][NextBalance]_vars

\* The block feed and the debounce timer, with one tracked balance for the
\* refresh cycles to re-read.
NextFeed ==
    \/ GetHandle(A1, FALSE, erc20)
    \/ \E t \in BagToSet(tasks) : FindAbiDone(t, TRUE)
    \/ \E h \in DOMAIN handles : TrackBalance(h, A3)
    \/ \E t \in BagToSet(tasks) : Resume(t)
    \/ \E t \in BagToSet(tasks) : CallSettled(t, 1)
    \/ \E b \in 0..MaxBlock : BlockAdvance(b)
    \/ \E b \in 0..MaxBlock : Bump(b)
    \/ \E id \in timers : TimerFire(id)

SpecFeed == Init /\ [][NextFeed]_vars

\* Balance tracking run by the event loop, with block numbers that exceed
\* the threshold: a timer that stays pending expires and a continuation whose
\* promise is resolved resumes.  A balance read that was sent to the chain
\* may resolve, reject or never settle: nothing in the code makes it settle.
BalanceRead(n) == [k |-> "balanceOf", key |-> balanceKey(A1, A3), handle |-> n,
                   account |-> A3]
NextLive ==
    \/ GetHandle(A1, FALSE, erc20)
    \/ \E t \in BagToSet(tasks) : FindAbiDone(t, TRUE)
    \/ \E h \in DOMAIN handles : TrackBalance(h, A3)
    \/ \E t \in BagToSet(tasks) : Resume(t)
    \/ \E t \in BagToSet(tasks), v \in ChainValues \cup {0} : CallSettled(t, v)
    \/ BlockAdvance(MaxBlock)
    \/ \E id \in timers : TimerFire(id)

SpecLive ==
    /\ Init /\ [][NextLive]_vars
    /\ \A id \in 1..MaxTimers : WF_vars(TimerFire(id))
    /\ WF_vars(\E t \in BagToSet(tasks) : Resume(t))

\* The refresh cycle over every kind of balance key.  trackedBalances is
\* private to the module and trackBalance only adds well-formed keys; the
\* branch of updateOnBlock that handles other keys (lines 24 and 28-31) is
\* exercised from initial sets that hold one: a key without account, a key
\* whose account is not an address, a key whose token is not an address.
OtherKeys == {A1, balanceKey(A1, BadAddr), balanceKey(BadAddr, A3)}
InitKeys ==
    /\ contracts = [a \in CacheAddrs |-> 0]
    /\ handles = << >>
    /\ eth = 0
    /\ trackedBalances \in {<<k>> : k \in OtherKeys}
    /\ trackedFunctions = << >>
    /\ trackables = {}
    /\ blockNumberPid = <<0, 0>>
    /\ timers = {}
    /\ nextTimer = 1
    /\ tasks = EmptyBag
    /\ subjects = << >>
    /\ fired = {}
    /\ armInfo = [by |-> "none", idle |-> TRUE]
    /\ handedOut = [a \in CacheAddrs |-> {}]
    /\ lastOp = Op("init", FALSE)
    /\ probe = NoProbe

NextKeys ==
    \/ GetHandle(A1, FALSE, erc20)
    \/ \E t \in BagToSet(tasks) : FindAbiDone(t, TRUE)
    \/ ResetCache
    \/ \E h \in DOMAIN handles : TrackBalance(h, A3)
    \/ \E h \in DOMAIN handles :
           CallThroughFunctions(h, "transfer", <<Prim(1), Prim(2)>>)
    \/ \E tr \in trackables : TrackFunction(tr, Obj(EmptyMap))
    \/ \E t \in BagToSet(tasks) : Resume(t)
    \/ \E t \in BagToSet(tasks), v \in ChainValues \cup {0} : CallSettled(t, v)
    \/ BlockAdvance(MaxBlock)
    \/ Bump(MaxBlock)
    \/ \E id \in timers : TimerFire(id)

SpecKeys == InitKeys /\ [][NextKeys]_vars

\* Wallet switches between calls and refresh cycles.
NextSigner ==
    \/ GetHandle(A1, FALSE, erc20)
    \/ GetHandle(A1, TRUE, erc20)
    \/ \E t \in BagToSet(tasks) : FindAbiDone(t, TRUE)
    \/ \E signer \in Signers : SignerChange(signer)
    \/ \E h \in DOMAIN handles : TrackBalance(h, A3)
    \/ \E h \in DOMAIN handles :
           CallThroughFunctions(h, "transfer", <<Prim(1), Prim(2)>>)
    \/ \E tr \in trackables : TrackFunction(tr, Obj(EmptyMap))
    \/ \E t \in BagToSet(tasks) : Resume(t)
    \/ \E t \in BagToSet(tasks) : CallSettled(t, 1)
    \/ Bump(0)
    \/ \E id \in timers : TimerFire(id)

SpecSigner == Init /\ [][NextSigner]_vars

\* The scheduler run by the event loop while the application only fetches
\* handles: a timer that stays pending expires after its delay.
NextSched ==
    \/ GetHandle(A1, FALSE, erc20)
    \/ \E t \in BagToSet(tasks) : FindAbiDone(t, TRUE)
    \/ ResetCache
    \/ \E b \in 0..MaxBlock : BlockAdvance(b)
    \/ \E b \in 0..MaxBlock : Bump(b)
    \/ \E id \in timers : TimerFire(id)

SpecSchedFair ==
    /\ Init /\ [][NextSched]_vars
    /\ \A id \in 1..MaxTimers : WF_vars(TimerFire(id))

\* Function tracking in full (with and without caller overrides, through
\* handles of several generations), refreshed by forced bumps.
NextTrack ==
    \/ GetHandle(A1, FALSE, erc20)
    \/ \E t \in BagToSet(tasks) : FindAbiDone(t, TRUE)
    \/ ResetCache
    \/ \E h \in DOMAIN handles, f \in TrackFns, args \in TrackArgs :
           CallThroughFunctions(h, f, args)
    \/ \E tr \in trackables, co \in CallerOverrides : TrackFunction(tr, co)
    \/ \E t \in BagToSet(tasks) : Resume(t)
    \/ \E t \in BagToSet(tasks) : CallSettled(t, 1)
    \/ Bump(0)
    \/ \E id \in timers : TimerFire(id)

SpecTrack == Init /\ [][NextTrack]_vars

\* Calls made through a handle: every binding, property and argument list.
ProbeContracts == {Binding(a, abi, 0) : a \in CacheAddrs, abi \in Abis}
ProbeProps == AllFunctionNames \cup {"raw", "decimals"}
ArgValues == {Prim(1), Undefined, Obj([gasLimit |-> 2, value |-> 0])}
ArgLists == UNION {[1..n -> ArgValues] : n \in 0..MaxArgs}

CallThroughHandle(contract, prop, args) ==
    /\ probe' = [contract |-> contract, prop |-> prop, args |-> args,
                 via |-> "get", res |-> HandleCall(contract, prop, args)]
    /\ lastOp' = Op("call", HandleCall(contract, prop, args).err # "none")
    /\ UNCHANGED <<cacheVars, eth, trackVars, schedVars, tasks, subjects>>

NextCall ==
    \E contract \in ProbeContracts, prop \in ProbeProps, args \in ArgLists :
        CallThroughHandle(contract, prop, args)

SpecCall == Init /\ [][NextCall]_vars

\* Calls through the handles the application holds, by property access and
\* through the functions map, while the cache is filled and reset.
WrapperProps == {"transfer", "balanceOf"}
WrapperArgs == { <<Prim(1), Prim(2)>>, <<Prim(1)>> }
NextWrapper ==
    \/ GetHandle(A1, FALSE, erc20)
    \/ GetHandle(A1, TRUE, erc20)
    \/ \E t \in BagToSet(tasks), found \in BOOLEAN : FindAbiDone(t, found)
    \/ ResetCache
    \/ \E h \in DOMAIN handles, prop \in WrapperProps, args \in WrapperArgs :
           handles[h].user /\ CallThroughHandle(BindingOf(h), prop, args)
    \/ \E h \in DOMAIN handles, prop \in WrapperProps, args \in WrapperArgs :
           CallThroughFunctions(h, prop, args)

SpecWrapper == Init /\ [][NextWrapper]_vars

\* ================================================================ claims
\* The keys a step dispatched: those of the continuations it suspended.
Dispatched == TaskKeys(BagToSet(tasks' (-) tasks))
Tracked == SetKeys(trackedBalances) \cup DOMAIN trackedFunctions
LookupPending(a) == \E t \in BagToSet(tasks) : t.k = "findAbi" /\ t.address = a
Built == (Len(handles) + 1)..Len(handles')

\* C1 (as claimed): between two resets at most one cached handle instance
\* per address is ever handed out, whatever the interleaving.
C1_SingleInstance ==
    \A a \in CacheAddrs : Cardinality(handedOut[a]) <= 1

\* C1 (amended): a call without ABI made while a handle is cached returns
\* that handle and builds nothing; the handle a call returns is the cache
\* entry at that moment; and while no lookup for the address is suspended and
\* no reset happens the entry stays and is the only handle returned.
C1_CachedHandleStable ==
    /\ [](\A a \in CacheAddrs : contracts[a] # 0 => contracts[a] \in handedOut[a])
    /\ [][\A a \in CacheAddrs :
            /\ (contracts[a] # 0 /\ lastOp'.op = "getHandle"
                  /\ GetHandle(a, FALSE, erc20))
                => /\ contracts' = contracts /\ tasks' = tasks
                   /\ Len(handles') = Len(handles)
                   /\ handedOut'[a] = handedOut[a] \cup {contracts[a]}
            /\ lastOp'.op # "resetCache"
                => handedOut'[a] \ handedOut[a] \subseteq {contracts'[a]}
            /\ (contracts[a] # 0 /\ lastOp'.op # "resetCache" /\ ~LookupPending(a))
                => /\ contracts'[a] = contracts[a]
                   /\ handedOut'[a] \subseteq handedOut[a] \cup {contracts[a]}]_vars

C1_Witness ==
    /\ lastOp = OpOn("getHandle", FALSE, <<A1, FALSE>>)
    /\ contracts[A1] # 0
    /\ handedOut[A1] = {contracts[A1]}
    /\ ~LookupPending(A1)
    /\ Len(handles) >= 2

\* C2: a call with an explicit ABI (by the application, by trackBalance, by
\* the balance re-reads of a refresh cycle) builds a new handle, which is not
\* the cached one, and leaves the cache as it was.
ExplicitStep ==
    \/ lastOp'.op \in {"trackBalance", "refresh"}
    \/ lastOp'.op = "getHandle" /\ lastOp'.arg[2]
C2_ExplicitAbiBypassesCache ==
    /\ [][ExplicitStep =>
            /\ contracts' = contracts
            /\ \A i \in Built : /\ handles'[i].explicit
                                /\ \A a \in CacheAddrs : contracts'[a] # i]_vars
    /\ [][\A a \in CacheAddrs :
            (lastOp'.op = "getHandle" /\ GetHandle(a, TRUE, erc20))
            => Len(handles') = Len(handles) + 1]_vars
    /\ [][lastOp'.op = "refresh" =>
            Len(handles') = Len(handles) + Len(trackedBalances)]_vars

C2_Witness ==
    /\ lastOp = OpOn("getHandle", FALSE, <<A1, TRUE>>)
    /\ contracts[A1] # 0
    /\ contracts[A1] # Len(handles)
    /\ handles[Len(handles)].explicit
    /\ handles[Len(handles)].user
    /\ handles[Len(handles)].address = A1

\* C3: a block advance beyond the threshold that finds no timer pending arms
\* one timer, and when that timer expires exactly one refresh cycle runs,
\* dispatching every tracked balance and every tracked function.
C3_SingleAdvanceOneCycle ==
    /\ [][\A b \in 0..MaxBlock :
            (timers = {} /\ b > blockNumberPid[1] + 4 /\ lastOp'.op = "block"
               /\ BlockAdvance(b))
            => /\ timers' = {blockNumberPid'[2]}
               /\ blockNumberPid'[2] \notin fired'
               /\ armInfo' = [by |-> "block", idle |-> TRUE]]_vars
    /\ [][\A id \in timers :
            (armInfo = [by |-> "block", idle |-> TRUE] /\ lastOp'.op = "refresh"
               /\ TimerFire(id))
            => /\ timers = {id} /\ timers' = {}
               /\ id \notin fired /\ fired' = fired \cup {id}
               /\ Dispatched = Tracked]_vars

C3_Witness ==
    /\ lastOp.op = "refresh"
    /\ armInfo = [by |-> "block", idle |-> TRUE]
    /\ timers = {}
    /\ trackedBalances # << >>
    /\ DOMAIN trackedFunctions # {}
    /\ TaskKeys(BagToSet(tasks)) = Tracked

\* C4: a block advance arms the timer exactly when newBlock > lastTarget + 4;
\* otherwise it leaves lastTarget, the timer slot and the pending timers as
\* they were and starts no refresh cycle.
C4_ThresholdGate ==
    [][\A b \in 0..MaxBlock :
        (lastOp'.op = "block" /\ BlockAdvance(b)) =>
            IF b > blockNumberPid[1] + 4
            THEN /\ blockNumberPid'[1] = b
                 /\ blockNumberPid'[2] # blockNumberPid[2]
                 /\ timers' = {blockNumberPid'[2]}
            ELSE /\ blockNumberPid' = blockNumberPid
                 /\ timers' = timers
                 /\ fired' = fired /\ tasks' = tasks]_vars

C4_Witness ==
    /\ lastOp.op = "block"
    /\ armInfo.by = "block"
    /\ blockNumberPid[1] > 4
    /\ timers = {blockNumberPid[2]}

\* C5: a bump, whatever block number it carries, cancels the pending timer,
\* arms a fresh one and sets lastTarget to its block number; the timer it
\* arms leaves only by running the refresh cycle or by being superseded.
C5_BumpAlwaysRearms ==
    /\ [][\A b \in 0..MaxBlock :
            (lastOp'.op = "bump" /\ Bump(b))
            => /\ blockNumberPid'[1] = b
               /\ timers' = {blockNumberPid'[2]}
               /\ blockNumberPid'[2] \notin timers \cup fired]_vars
    /\ [][(blockNumberPid[2] \in timers /\ blockNumberPid[2] \notin timers')
            => \/ blockNumberPid[2] \in fired' /\ lastOp'.op = "refresh"
               \/ blockNumberPid'[2] \in timers' \ timers]_vars

C5_Witness ==
    /\ lastOp.op = "bump"
    /\ armInfo = [by |-> "bump", idle |-> FALSE]
    /\ blockNumberPid[1] = 0
    /\ timers = {blockNumberPid[2]}
    /\ fired = {}

\* A call through a handle that is routed through override injection: the
\* function is declared by the binding's ABI and has a registered rule.
Injected == /\ probe.via = "get"
            /\ probe.prop \in FunctionNames(probe.contract.abi)
            /\ hasOverrides(probe.prop, probe.contract)
Arity == expectedArgLength(probe.prop, probe.contract)
Rule == getOverrides(probe.prop, probe.contract)

\* C6: with n positional arguments and a trailing plain object, the binding
\* receives n+1 arguments, the last one being the registered overrides merged
\* with the caller's object, the caller's values winning.
C6_TrailingObjectMerged ==
    (Injected /\ Len(probe.args) = Arity + 1 /\ isPOJO(probe.args[Arity + 1]))
    => /\ probe.res.err = "none"
       /\ Len(probe.res.calls) = 1
       /\ Len(probe.res.calls[1].args) = Arity + 1
       /\ probe.res.calls[1].args[Arity + 1] = Spread2(Rule, probe.args[Arity + 1])

\* C7: with exactly n positional arguments the binding is reached exactly
\* once, the n arguments unchanged and the registered overrides in position n.
C7_OverridesAppended ==
    (Injected /\ Len(probe.args) = Arity)
    => /\ probe.res.err = "none"
       /\ Len(probe.res.calls) = 1
       /\ probe.res.calls[1].fn = probe.prop
       /\ Len(probe.res.calls[1].args) = Arity + 1
       /\ \A i \in 1..Arity : probe.res.calls[1].args[i] = probe.args[i]
       /\ probe.res.calls[1].args[Arity + 1] = Rule

C7_Witness ==
    /\ Injected
    /\ Arity = 2
    /\ Len(probe.args) = Arity
    /\ probe.contract.address = A1
    /\ probe.res.err = "none"
    /\ probe.res.calls[1].args[3] = Obj([gasLimit |-> 1, value |-> 2])

\* C8: with fewer than n arguments the call is rejected and the binding is not
\* invoked; with n or more arguments the call is not rejected.
C8_ArityViolationRejected ==
    Injected
    => /\ Len(probe.args) < Arity
            => (probe.res.err # "none" /\ probe.res.calls = << >>)
       /\ Len(probe.args) >= Arity => probe.res.err = "none"

\* C9: tracking a call whose key is already tracked keeps the table's key
\* set, stores the later call's parameters under the key, leaves the other
\* entries alone and returns the stream the key already has.
C9_RetrackOverwrites ==
    /\ [](DOMAIN trackedFunctions \subseteq DOMAIN subjects)
    /\ [][\A tr \in trackables, co \in CallerOverrides :
            LET key == functionKey(handles[tr.h].address, tr.functionName,
                                   tr.args, co)
            IN (key \in DOMAIN trackedFunctions /\ lastOp'.op = "track"
                  /\ TrackFunction(tr, co))
               => /\ DOMAIN trackedFunctions' = DOMAIN trackedFunctions
                  /\ trackedFunctions'[key].contractAddress = handles[tr.h].address
                  /\ trackedFunctions'[key].rawFunction = <<tr.h, tr.functionName>>
                  /\ trackedFunctions'[key].args = tr.args
                  /\ \A fld \in Fields : co.o[fld] # 0 =>
                        trackedFunctions'[key].overrides.o[fld] = co.o[fld]
                  /\ \A k \in DOMAIN trackedFunctions \ {key} :
                        trackedFunctions'[k] = trackedFunctions[k]
                  /\ subjects' = subjects]_vars

C9_Witness ==
    /\ lastOp.op = "track"
    /\ \E t1, t2 \in BagToSet(tasks) :
          /\ t1.k = "call" /\ t2.k = "call"
          /\ t1.key = t2.key
          /\ t1.raw # t2.raw
          /\ DOMAIN trackedFunctions = {t1.key}

\* C10: resetCache empties the address->handle mapping and changes nothing
\* else; the next refresh cycle dispatches every tracked entry, building a
\* handle for every balance and looking up (then caching again) the handle of
\* every tracked function.
C10_ResetKeepsTracking ==
    /\ [][lastOp'.op = "resetCache" =>
            /\ \A a \in CacheAddrs : contracts'[a] = 0
            /\ UNCHANGED <<handles, trackedBalances, trackedFunctions, trackables,
                           blockNumberPid, timers, tasks, subjects>>]_vars
    /\ [][lastOp'.op = "refresh" =>
            /\ Dispatched = Tracked
            /\ Cardinality(Built) = Len(trackedBalances)
            /\ \A key \in DOMAIN trackedFunctions :
                  contracts[trackedFunctions[key].contractAddress] = 0
                  => \E t \in BagToSet(tasks') :
                        /\ t.k = "findAbi" /\ t.origin = "refresh" /\ t.key = key
                        /\ t.address = trackedFunctions[key].contractAddress]_vars
    /\ [][lastOp'.op = "refreshResolve" =>
            \E a \in CacheAddrs : /\ contracts'[a] = Len(handles')
                                  /\ Len(handles') = Len(handles) + 1
                                  /\ ~handles'[contracts'[a]].explicit]_vars

C10_Witness ==
    /\ lastOp.op = "refreshResolve"
    /\ contracts[A1] = Len(handles)
    /\ Len(handles) >= 2
    /\ DOMAIN trackedFunctions # {}
    /\ \E t \in BagToSet(tasks) :
          t.k = "await" /\ t.next.k = "call" /\ t.next.contract = contracts[A1]

\* The continuations a step resumed and those it suspended; the
\* continuations of a key that are suspended.
Resumed == BagToSet(tasks (-) tasks')
Started == BagToSet(tasks' (-) tasks)
PendingFor(key) == {t \in BagToSet(tasks) : t.key = key}

\* The last value published on the stream of a key.
Last(key) == IF key \in DOMAIN subjects THEN subjects[key].last ELSE NoValue

\* The callback that makes the balance read for A3 on A1 with handle n
\* waits to resume; the read is on its way when its callback waits or the
\* read was sent and has not settled.
ReadAwaited(n) ==
    \E o \in {"trackBalance", "refresh"} :
        Await(o, BalanceRead(n)) \in BagToSet(tasks)
ReadPending(n) == BalanceRead(n) \in BagToSet(tasks) \/ ReadAwaited(n)

\* C11 (as claimed): the balance read at registration, and every read a
\* refresh cycle starts again, is eventually published on the stream of its
\* key.
C11_ReadAlwaysPublished ==
    \A n \in 1..MaxHandles :
        ReadPending(n) ~> (~ReadPending(n) /\ Last(balanceKey(A1, A3)) = Str(1))

\* C11: trackBalance(account) on a handle of a token puts balanceKey(token,
\* account) into the tracked set and starts a balance read of the pair; every
\* refresh cycle starts a new read for every tracked pair; the callback that
\* resumes sends the read (trackBalance then returns the stream of the key),
\* and every read that was started is eventually sent; a read that resolves
\* is published on the stream of its key and on no other, a read that rejects
\* publishes nothing.
C11_BalanceTrackedEndToEnd ==
    /\ [][\A h \in DOMAIN handles :
            (lastOp'.op = "trackBalance" /\ ~lastOp'.threw /\ TrackBalance(h, A3))
            => LET key == balanceKey(handles[h].address, A3)
               IN /\ key \in SetKeys(trackedBalances')
                  /\ \E t \in Started :
                        /\ t.k = "await" /\ t.key = key
                        /\ t.next.k = "balanceOf" /\ t.next.key = key
                        /\ t.next.account = A3
                        /\ handles'[t.next.handle].address = handles[h].address]_vars
    /\ [][lastOp'.op = "refresh" =>
            \A key \in SetKeys(trackedBalances) :
                \E t \in Started :
                    /\ t.k = "await" /\ t.key = key
                    /\ t.next.k = "balanceOf" /\ t.next.key = key
                    /\ balanceKey(handles'[t.next.handle].address,
                                  t.next.account) = key]_vars
    /\ [][lastOp'.op = "resume" =>
            \A t \in Resumed :
                /\ Started = {t.next}
                /\ t.origin = "trackBalance" => t.key \in DOMAIN subjects']_vars
    /\ [][\A t \in BagToSet(tasks) :
            (lastOp'.op = "settled" /\ t.k = "balanceOf") =>
                /\ CallSettled(t, 1) =>
                      /\ subjects'[t.key].last = Str(1)
                      /\ \A k \in DOMAIN subjects \ {t.key} : subjects'[k] = subjects[k]
                /\ CallSettled(t, 0) => subjects' = subjects]_vars
    /\ \A n \in 1..MaxHandles :
          ReadAwaited(n) ~> BalanceRead(n) \in BagToSet(tasks)

C11_Witness ==
    /\ lastOp.op = "settled"
    /\ tasks = EmptyBag
    /\ armInfo.by = "block"
    /\ fired # {}
    /\ trackedBalances = <<balanceKey(A1, A3)>>
    /\ Len(handles) = 3
    /\ ~handles[3].user
    /\ Last(balanceKey(A1, A3)) = Str(1)

\* The balance keys made of two valid addresses.
WellFormedKeys == {balanceKey(t, a) : t \in {A1, A2, A3}, a \in {A1, A2, A3}}

\* C12: no step removes a key from the tracked-balances set or an entry from
\* the tracked-functions table; a refresh cycle does not throw, keeps every
\* key, skips the balance keys that are not two valid addresses and
\* dispatches every other tracked entry.
C12_TrackedSetsOnlyGrow ==
    /\ [][/\ Len(trackedBalances) <= Len(trackedBalances')
          /\ \A i \in DOMAIN trackedBalances :
                trackedBalances'[i] = trackedBalances[i]
          /\ DOMAIN trackedFunctions \subseteq DOMAIN trackedFunctions']_vars
    /\ [][lastOp'.op = "refresh" =>
            /\ ~lastOp'.threw
            /\ trackedBalances' = trackedBalances
            /\ Dispatched = (SetKeys(trackedBalances) \cap WellFormedKeys)
                                \cup DOMAIN trackedFunctions]_vars

C12_Witness ==
    /\ lastOp.op = "refresh"
    /\ trackedBalances = <<balanceKey(A1, BadAddr), balanceKey(A1, A3)>>
    /\ DOMAIN trackedFunctions # {}
    /\ \E t \in BagToSet(tasks) :
          t.k = "await" /\ t.next.k = "balanceOf" /\ t.next.handle = Len(handles)
    /\ \E t \in BagToSet(tasks) : t.key \in DOMAIN trackedFunctions

\* C13: getHandle with an address that fails validation and trackBalance
\* with an account that fails validation throw, and leave the cache, the
\* tracked set, the tracked table and the streams as they were; no handle is
\* built, no ABI lookup and no contract call is started.
C13_InvalidAddressNoEffect ==
    /\ [][\A explicit \in BOOLEAN :
            (lastOp'.op = "getHandle" /\ GetHandle(BadAddr, explicit, erc20))
            => /\ lastOp'.threw
               /\ UNCHANGED <<contracts, handles, trackedBalances, trackedFunctions,
                              subjects, tasks>>]_vars
    /\ [][\A h \in DOMAIN handles :
            (lastOp'.op = "trackBalance" /\ TrackBalance(h, BadAddr))
            => /\ lastOp'.threw
               /\ UNCHANGED <<contracts, handles, trackedBalances, trackedFunctions,
                              subjects, tasks>>]_vars
    /\ [](balanceKey(A1, BadAddr) \notin SetKeys(trackedBalances))

C13_Witness ==
    /\ lastOp = Op("trackBalance", TRUE)
    /\ contracts[A1] # 0
    /\ trackedBalances = <<balanceKey(A1, A3)>>
    /\ tasks # EmptyBag

\* C14 (as claimed): whatever was cached before a wallet switch, the handle a
\* getHandle call returns is bound to the signer of the eth store at the time
\* of the call, and every read a refresh cycle starts, for balances and for
\* tracked functions alike, goes through a binding bound to that signer.
C14_SwitchTakesEffect ==
    /\ [][(lastOp'.op = "getHandle" /\ ~lastOp'.threw /\ tasks' = tasks)
            => IF Len(handles') > Len(handles)
               THEN handles'[Len(handles')].signer = eth'
               ELSE handles'[contracts[lastOp'.arg[1]]].signer = eth']_vars
    /\ [][lastOp'.op = "getHandleReturn" => handles'[Len(handles')].signer = eth']_vars
    /\ [][lastOp'.op \in {"refresh", "refreshResolve"} =>
            \A t \in Started : t.k = "await" =>
                /\ t.next.k = "balanceOf" => handles'[t.next.handle].signer = eth'
                /\ t.next.k = "call" =>
                      /\ handles'[t.next.contract].signer = eth'
                      /\ handles'[t.next.raw[1]].signer = eth']_vars

\* C15 (as claimed): every entry of the tracked-functions table is stored
\* under the key made of its own contract, function, arguments and stored
\* (effective) overrides, so the overrides in the key are the ones passed to
\* the call.
C15_KeyUsesEffectiveOverrides ==
    \A key \in DOMAIN trackedFunctions :
        key = functionKey(trackedFunctions[key].contractAddress,
                          trackedFunctions[key].rawFunction[2],
                          trackedFunctions[key].args,
                          trackedFunctions[key].overrides)

\* A call that reached the binding carries the registered overrides: it has
\* an argument after the declared inputs, a plain object holding every
\* parameter of the rule.
CarriesRule(call, contract) ==
    LET n == expectedArgLength(call.fn, contract)
        rule == getOverrides(call.fn, contract)
    IN /\ Len(call.args) > n
       /\ isPOJO(call.args[n + 1])
       /\ \A f \in Fields : rule.o[f] # 0 => call.args[n + 1].o[f] # 0

\* C16 (as claimed): whichever way a function is invoked through a handle,
\* by property access or through the functions map, the binding receives no
\* call of a function that has a registered rule without the rule's
\* overrides, and a function without a rule is invoked with the caller's
\* arguments unchanged.
C16_OverridesAlwaysApplied ==
    probe.prop \in FunctionNames(probe.contract.abi) =>
        IF hasOverrides(probe.prop, probe.contract)
        THEN \A i \in DOMAIN probe.res.calls :
                CarriesRule(probe.res.calls[i], probe.contract)
        ELSE \A i \in DOMAIN probe.res.calls :
                probe.res.calls[i] = [fn |-> probe.prop, args |-> probe.args]

\* C17: at most one debounce timer is pending, and it is the one in the
\* slot; a timer that was superseded never fires, so every refresh cycle is
\* started by the timer armed last; there are never more refresh cycles than
\* arming events.
C17_OnePendingTimer ==
    /\ [](/\ Cardinality(timers) <= 1
          /\ timers \subseteq {blockNumberPid[2]}
          /\ timers \cap fired = {}
          /\ Cardinality(fired) <= nextTimer - 1)
    /\ [][lastOp'.op \in {"block", "bump"} /\ nextTimer' # nextTimer =>
            /\ timers' = {blockNumberPid'[2]}
            /\ blockNumberPid'[2] = nextTimer
            /\ fired' = fired]_vars
    /\ [][lastOp'.op = "refresh" =>
            /\ fired' \ fired = {blockNumberPid[2]}
            /\ blockNumberPid[2] = nextTimer - 1
            /\ timers' = {}]_vars

C17_Witness ==
    /\ lastOp.op = "refresh"
    /\ nextTimer = 3
    /\ fired = {2}
    /\ timers = {}

\* C18: a read of a refresh cycle that rejects takes nothing with it: the
\* other reads stay in flight, the tracked entries and the scheduler are
\* untouched; the cycle had dispatched every entry and left no timer pending;
\* a later bump arms the timer again and the next cycle dispatches every
\* entry again, the one that failed included.
C18_FailureIsolated ==
    /\ [][\A t \in BagToSet(tasks) :
            (lastOp'.op = "settled" /\ CallSettled(t, 0))
            => /\ tasks' = RemoveTask(tasks, t)
               /\ UNCHANGED <<trackedBalances, trackedFunctions, contracts,
                              blockNumberPid, timers, nextTimer, fired>>]_vars
    /\ [][lastOp'.op = "refresh" =>
            /\ timers' = {}
            /\ \A key \in Tracked : \E t \in Started : t.key = key]_vars
    /\ [][lastOp'.op = "bump" => timers' = {nextTimer}]_vars

C18_Witness ==
    /\ lastOp.op = "refresh"
    /\ trackedBalances = <<balanceKey(A1, A3)>>
    /\ balanceKey(A1, A3) \in DOMAIN subjects
    /\ Last(balanceKey(A1, A3)) = NoValue
    /\ \E t \in BagToSet(tasks) :
          /\ PendingFor(balanceKey(A1, A3)) = {t}
          /\ t.k = "await" /\ t.next.handle = 3
    /\ \E t \in BagToSet(tasks) : t.key \in DOMAIN trackedFunctions
    /\ timers = {}

\* C19 (as claimed): a call through the functions map of any handle the
\* application holds reaches a contract binding, whatever the cache holds at
\* that moment: it does not throw and the binding receives the call.
C19_HandleIndependentOfCache ==
    probe.via = "functions" =>
        /\ probe.res.err = "none"
        /\ Len(probe.res.calls) = 1
        /\ probe.res.calls[1].fn = probe.prop

\* C20 (as claimed): after the block feed has emitted a block number, a
\* refresh cycle eventually runs, also when the feed emits nothing more.
C20_EveryBlockRefreshed ==
    \A n \in 0..MaxTimers :
        (lastOp.op = "block" /\ Cardinality(fired) = n) ~> (Cardinality(fired) > n)

\* C20 (amended): a block number arms the timer only when it exceeds the
\* last target by more than the threshold, and a timer that was armed either
\* runs the refresh cycle or is superseded by a later arming event.
C20_ArmedTimerRuns ==
    /\ \A id \in 1..MaxTimers :
          (id \in timers) ~> (id \in fired \/ nextTimer > id + 1)
    /\ [][\A b \in 0..MaxBlock :
            (lastOp'.op = "block" /\ BlockAdvance(b))
            => (nextTimer' # nextTimer <=> b > blockNumberPid[1] + 4)]_vars
    /\ [][timers' # timers =>
            \/ lastOp'.op = "refresh"
            \/ nextTimer' = nextTimer + 1 /\ timers' = {nextTimer}]_vars

C20_Witness ==
    /\ lastOp.op = "refresh"
    /\ armInfo.by = "block"
    /\ blockNumberPid[1] = MaxBlock
    /\ fired = {blockNumberPid[2]}
    /\ timers = {}

====
